---- MODULE Spec2Model ----
(***************************************************************************)
(* Model of vite-plugin-specifier (src/src/index.ts): the plugin's two     *)
(* hooks, transform and writeBundle, together with the parts of their      *)
(* collaborators that decide what they do: node:path's join and extname,   *)
(* the specifier rewrite service (update / updateSrc), glob and the        *)
(* filesystem (writeFile / rm).                                            *)
(*                                                                         *)
(* Strings are tuples of one-character strings, so that the regular        *)
(* expressions of the source are computed on characters.  Source text is   *)
(* a sequence of lines; a line either carries an import specifier or is    *)
(* other text.  The empty sequence is the empty string (falsy in JS).      *)
(***************************************************************************)
EXTENDS Integers, Sequences, FiniteSets, TLC

\* ------------------------------------------------------------------ bounds
\* Number of entries of the bundle manifest the host may report.
MaxBundle == 4
\* Number of transform calls the host makes before writeBundle.
MaxTransforms == 1
\* Number of writeBundle invocations the host makes on one output directory.
MaxRuns == 2

\* ------------------------------------------------------------- characters
Js == <<".", "j", "s">>
Mjs == <<".", "m", "j", "s">>
Cjs == <<".", "c", "j", "s">>
Jsx == <<".", "j", "s", "x">>
Ts == <<".", "t", "s">>
Mts == <<".", "m", "t", "s">>
Cts == <<".", "c", "t", "s">>
Tsx == <<".", "t", "s", "x">>
Css == <<".", "c", "s", "s">>
DTs == <<".", "d", ".", "t", "s">>
DMts == <<".", "d", ".", "m", "t", "s">>
DCts == <<".", "d", ".", "c", "t", "s">>
Dual == <<"d", "u", "a", "l">>
Slash == <<"/">>
DotSlash == <<".", "/">>
DotDotSlash == <<".", ".", "/">>

EndsWith(s, suf) ==
  /\ Len(s) >= Len(suf)
  /\ SubSeq(s, Len(s) - Len(suf) + 1, Len(s)) = suf

StartsWith(s, pre) ==
  /\ Len(s) >= Len(pre)
  /\ SubSeq(s, 1, Len(pre)) = pre

DropLast(s, n) == SubSeq(s, 1, Len(s) - n)

LastIndexOf(s, c) ==
  LET I == {i \in 1..Len(s) : s[i] = c}
  IN IF I = {} THEN 0 ELSE CHOOSE i \in I : \A j \in I : j <= i

\* ------------------------------------------------------------- node:path
join(dir, name) == dir \o Slash \o name

\* path.extname: from the last "." of the basename to the end; "" when the
\* basename has no "." or only a leading one.
extname(p) ==
  LET start == LastIndexOf(p, "/") + 1
      dot == LastIndexOf(p, ".")
  IN IF dot = 0 \/ dot <= start THEN <<>> ELSE SubSeq(p, dot, Len(p))

\* ------------------------------------------------------- source text model
Imp(v) == [imp |-> TRUE, val |-> v]
Txt == [imp |-> FALSE, val |-> <<"x">>]

\* -------------------------------------------------------------- constants
OutDir == <<"o">>
AJs == <<"a">> \o Js
ACjs == <<"a">> \o Cjs
BCjs == <<"b">> \o Cjs
SCss == <<"s">> \o Css
ADTs == <<"a">> \o DTs

RelFooJs == DotSlash \o <<"f">> \o Js
RelFooMjs == DotSlash \o <<"f">> \o Mjs
RelFooCjs == DotSlash \o <<"f">> \o Cjs
UpBarJs == DotDotSlash \o <<"b">> \o Js
BareJs == <<"l">> \o Js
DotJs == DotSlash \o Js
RelBazMjs == DotSlash \o <<"z">> \o Mjs
RelBarMjs == DotSlash \o <<"b">> \o Mjs
TestSpecifier == <<"t">>

\* ---------------------------------------------------------------- options
\* An option that may be undefined is a record with a `set` flag; tables
\* keep their key order as a sequence of <<key, value>> pairs.
Unset == [set |-> FALSE, tbl |-> <<>>]
Tbl(pairs) == [set |-> TRUE, tbl |-> pairs]

Keys(t) == {t.tbl[i][1] : i \in 1..Len(t.tbl)}
Has(t, k) == t.set /\ k \in Keys(t)
\* t[k], with undefined written as the empty string
Get(t, k) ==
  IF Has(t, k)
  THEN t.tbl[CHOOSE i \in 1..Len(t.tbl) : t.tbl[i][1] = k][2]
  ELSE <<>>

\* ------------------------------------------------------------- getExtMap
\* /\.d\.ts$/i.test(ext), on lower-case keys
IsDecKey(ext) == EndsWith(ext, DTs)

\* The compiled table keeps, for each rule, the suffix its pattern
\* ^(\.\.?\/)(.+)\<ext>$ ends in and the suffix its template $1$2<to> adds.
getExtMap(extMap) ==
  SelectSeq(extMap.tbl, LAMBDA pair : ~IsDecKey(pair[1]))

RelPrefixLen(value) ==
  IF StartsWith(value, DotSlash) THEN 2
  ELSE IF StartsWith(value, DotDotSlash) THEN 3
  ELSE 0

\* RuleTest without the anchored relative prefix
RuleTestAnywhere(value, ext) ==
  /\ EndsWith(value, ext)
  /\ Len(value) - Len(ext) >= 1

\* new RegExp('^(\\.\\.?\\/)(.+)\\' + ext + '$').test(value)
RuleTest(value, ext) ==
  /\ RelPrefixLen(value) > 0
  /\ EndsWith(value, ext)
  /\ Len(value) - RelPrefixLen(value) - Len(ext) >= 1

\* value.replace(regex, '$1$2' + to)
RuleReplace(value, ext, to) == DropLast(value, Len(ext)) \o to

\* A pattern table as a callback: the first pattern that tests true
\* determines the replacement; no match leaves the specifier alone.
toCallback(rules, value) ==
  LET M == {i \in 1..Len(rules) : RuleTest(value, rules[i][1])}
  IN IF M = {} THEN value
     ELSE LET i == CHOOSE k \in M : \A j \in M : k <= j
          IN RuleReplace(value, rules[i][1], rules[i][2])

\* The handler option: absent, an empty pattern table, or a callback
\* returning one fixed specifier.
ApplyHandlerAlways(handler, value) == TestSpecifier

ApplyHandler(handler, value) ==
  IF handler = "const" THEN TestSpecifier ELSE value

\* updater = extMap ? getExtMap(extMap) : handler ?? {}
Updater(opts, value) ==
  IF opts.extMap.set
  THEN toCallback(getExtMap(opts.extMap), value)
  ELSE ApplyHandler(opts.handler, value)

\* ({ value }) => value.startsWith('./') || value.startsWith('../')
\*   ? value.replace(/(.+)\.(?:js|mjs|cjs)$/, `$1${target}`) : undefined
ScriptSuffix(value) ==
  IF EndsWith(value, Mjs) THEN Mjs
  ELSE IF EndsWith(value, Cjs) THEN Cjs
  ELSE IF EndsWith(value, Js) THEN Js
  ELSE <<>>

RelSwap(value, target) ==
  IF /\ RelPrefixLen(value) > 0
     /\ ScriptSuffix(value) # <<>>
     /\ Len(value) > Len(ScriptSuffix(value))
  THEN DropLast(value, Len(ScriptSuffix(value))) \o target
  ELSE value

\* ({ value }) => map.has(value) ? map.get(value) : undefined
MapLookup(map, value) == IF Has(map, value) THEN Get(map, value) ELSE value

\* The callbacks the plugin hands to the rewrite service.
UpdaterCb(opts) == [kind |-> "updater", arg |-> opts]
SwapCb(target) == [kind |-> "swap", arg |-> target]
LookupCb(map) == [kind |-> "lookup", arg |-> map]

Call(cb, value) ==
  IF cb.kind = "updater" THEN Updater(cb.arg, value)
  ELSE IF cb.kind = "swap" THEN RelSwap(value, cb.arg)
  ELSE MapLookup(cb.arg, value)

\* The rewrite service applies the callback to every specifier of a source
\* text and leaves the rest of the text as it is.
Rewrite(code, cb) ==
  [i \in 1..Len(code) |->
     IF code[i].imp THEN Imp(Call(cb, code[i].val)) ELSE code[i]]

\* ------------------------------------------------------------------ inputs
ExtMaps ==
  { Tbl(<< <<Js, Mjs>> >>),
    Tbl(<< <<Js, Cjs>> >>),
    Tbl(<< <<Js, Mjs>>, <<DTs, Dual>> >>),
    Tbl(<< <<Js, Cjs>>, <<DTs, Dual>> >>),
    Tbl(<< <<DTs, Dual>> >>),
    Tbl(<< <<Js, Mjs>>, <<DTs, DMts>> >>),
    Tbl(<< <<Js, Cjs>>, <<DTs, DCts>> >>),
    Tbl(<< <<Js, Mjs>>, <<DTs, Mjs>> >>),
    Tbl(<< <<Js, Cjs>>, <<Cjs, Js>> >>),
    Tbl(<< <<Js, Dual>> >>) }

LiteralMaps ==
  { Tbl(<< <<RelFooJs, RelBazMjs>> >>),
    Tbl(<< <<RelFooMjs, RelBarMjs>> >>) }

Writers == {"false", "true", "function"}

Options ==
  \* hook 'writeBundle', no extMap: handler and map vary
  [extMap : {Unset}, map : {Unset} \cup LiteralMaps,
   handler : {"undefined", "empty", "const"}, writer : Writers,
   hook : {"writeBundle"}]
  \cup
  \* hook 'writeBundle', extMap
  [extMap : ExtMaps, map : {Unset} \cup LiteralMaps,
   handler : {"undefined"}, writer : Writers, hook : {"writeBundle"}]
  \cup
  [extMap : {Tbl(<< <<Js, Mjs>> >>)}, map : {Unset},
   handler : {"const"}, writer : Writers, hook : {"writeBundle"}]
  \cup
  \* hook 'transform'
  [extMap : {Unset} \cup ExtMaps, map : {Unset},
   handler : {"undefined", "empty", "const"}, writer : {"false"},
   hook : {"transform"}]

\* what the files of a build may contain
ScriptCodes ==
  { <<>>,
    <<Imp(RelFooJs), Imp(BareJs), Imp(RelFooCjs)>>,
    <<Imp(DotJs), Imp(UpBarJs), Txt>> }

DeclCodes ==
  { <<>>,
    <<Imp(RelFooJs), Imp(BareJs), Imp(DotJs)>> }

\* the emitted files a host reports, in manifest order
BundleUniverse == <<AJs, SCss, ADTs, ACjs, BCjs>>
Manifests ==
  {SubSeq(BundleUniverse, 1, n) :
     n \in {k \in 0..MaxBundle : k <= Len(BundleUniverse)}}

Range(seq) == {seq[i] : i \in 1..Len(seq)}

\* ------------------------------------------------------------------- state
VARIABLES
  options,     \* the plugin's options, fixed at construction
  bundle,      \* the manifest the host passes to writeBundle
  disk,        \* the filesystem under outDir: path -> content
  disk0,       \* the filesystem as the host left it, before writeBundle
  updFail,     \* files whose specifier.update call fails
  srcFail,     \* files for whose code specifier.updateSrc fails
  failMode,    \* how the rewrite service fails: "report" or "throw"
  fsFail,      \* paths for which writeFile rejects
  run,         \* number of the writeBundle invocation, from 1
  pc,          \* position of writeBundle
  files,       \* writeBundle's candidate list
  idx,         \* index of the running loop
  records,     \* BundleRecords: path -> [code, error]
  recKeys,     \* Object.keys(records), in insertion order
  fsLog,       \* every writeFile / rm issued so far, in order
  writerCalls, \* number of calls of the writer callback
  writerArg,   \* the paths of the records last passed to the writer callback
  ret,         \* what the last transform call returned to the host
  ncalls       \* number of transform calls so far

vars == <<options, bundle, disk, disk0, updFail, srcFail, failMode, fsFail, run,
          pc, files, idx, records, recKeys, fsLog, writerCalls, writerArg, ret,
          ncalls>>

config == <<options, bundle, disk0, updFail, srcFail, failMode, fsFail, run>>
loop == <<pc, files, idx, records, recKeys>>

NoRet == [kind |-> "none", svc |-> "none", src |-> <<>>, code |-> <<>>,
          map |-> FALSE]
EmptyFn == [p \in {} |-> <<>>]

InitialDisk(manifest, script, decl) ==
  LET names == Range(manifest) \ {ADTs}
      base == [p \in {join(OutDir, n) : n \in names} |->
                 IF p = join(OutDir, AJs) THEN script
                 ELSE IF p \in {join(OutDir, ACjs), join(OutDir, BCjs)}
                 THEN <<Imp(RelFooCjs), Imp(RelFooJs)>>
                 ELSE <<Txt>>]
  IN IF decl.set THEN (join(OutDir, ADTs) :> decl.code) @@ base ELSE base

Init ==
  /\ options \in Options
  /\ bundle \in Manifests
  /\ \E script \in ScriptCodes :
       \E decl \in {[set |-> FALSE, code |-> <<>>]}
                   \cup [set : {TRUE}, code : DeclCodes] :
         /\ ADTs \in Range(bundle) => decl.set
         /\ options.hook = "transform" =>
              script = <<Imp(RelFooJs), Imp(BareJs), Imp(RelFooCjs)>> /\ ~decl.set
         /\ disk = InitialDisk(bundle, script, decl)
  /\ disk0 = disk
  /\ updFail \in {{}, {join(OutDir, AJs)}, {join(OutDir, ADTs)},
                  {join(OutDir, ACjs)}}
  /\ srcFail \in {{}, {join(OutDir, AJs)}}
  /\ failMode \in {"report", "throw"}
  /\ fsFail \in {{}, {join(OutDir, <<"a">> \o Mjs)}}
  /\ updFail \subseteq DOMAIN disk
  /\ srcFail \subseteq DOMAIN disk
  /\ fsFail # {} => AJs \in Range(bundle)
  /\ (updFail = {} /\ srcFail = {}) => failMode = "report"
  /\ fsFail # {} => updFail = {} /\ srcFail = {}
  /\ options.hook = "transform" =>
       bundle = <<>> /\ updFail = {} /\ srcFail = {} /\ fsFail = {}
  /\ run = 1
  /\ pc = "idle"
  /\ files = <<>>
  /\ idx = 1
  /\ records = EmptyFn
  /\ recKeys = <<>>
  /\ fsLog = <<>>
  /\ writerCalls = 0
  /\ writerArg = {}
  /\ ret = NoRet
  /\ ncalls = 0

\* ------------------------------------------------------------- filesystem
WriteOp(path, code) == [op |-> "write", path |-> path, code |-> code]
RmOp(path) == [op |-> "rm", path |-> path, code |-> <<>>]

\* writeFile(path, code) creates or replaces; rm(path, {force: true})
\* removes the path if it is there.
ApplyOp(d, o) ==
  IF o.op = "write"
  THEN (o.path :> o.code) @@ d
  ELSE [q \in DOMAIN d \ {o.path} |-> d[q]]

RECURSIVE ApplyOps(_, _)
ApplyOps(d, ops) ==
  IF ops = <<>> THEN d ELSE ApplyOps(ApplyOp(d, Head(ops)), Tail(ops))

\* The operations of a step that complete: all of them, or those before the
\* first writeFile that rejects.
Rejected(ops) ==
  {i \in 1..Len(ops) : ops[i].op = "write" /\ ops[i].path \in fsFail}

Completed(ops) ==
  IF Rejected(ops) = {} THEN ops
  ELSE SubSeq(ops, 1, (CHOOSE i \in Rejected(ops) :
                         \A j \in Rejected(ops) : i <= j) - 1)

\* string.replace(/<suf>$/i, to) on lower-case names
ReplaceSuffix(s, suf, to) ==
  IF EndsWith(s, suf) THEN DropLast(s, Len(suf)) \o to ELSE s

\* /\.(js|mjs|cjs|jsx|ts|mts|cts|tsx)$/.test(filename)
IsScript(name) ==
  \E e \in {Js, Mjs, Cjs, Jsx, Ts, Mts, Cts, Tsx} : EndsWith(name, e)

\* glob(`${outDir}/**/*.d.ts`): the declaration files on disk, in scan order
DtsScanOrder == <<join(OutDir, ADTs)>>
glob(d) ==
  SelectSeq(DtsScanOrder, LAMBDA p : p \in DOMAIN d /\ EndsWith(p, DTs))

\* Object.keys(bundle).filter(...).map(n => join(outDir, n)).concat(dts)
Candidates(manifest, d) ==
  LET kept == SelectSeq(manifest, IsScript)
  IN [i \in 1..Len(kept) |-> join(OutDir, kept[i])] \o glob(d)

\* ---------------------------------------------------------- rewrite service
\* specifier.update(filename, updater) reads the file and rewrites it
UpdateFails(f) == f \in updFail \/ f \notin DOMAIN disk

\* --------------------------------------------------------------- writeBundle
fileIsDec(f) == EndsWith(f, DTs)
fileExt(f) == IF fileIsDec(f) THEN DTs ELSE extname(f)
newExtOfJs(f) == Get(options.extMap, Js)

newExt(f) == Get(options.extMap, fileExt(f))

\* the pass that runs next, from pass number k on, given the number of
\* candidate files and of records
PhaseFrom(k, nf, nk) ==
  IF k <= 2 /\ options.extMap.set /\ nk > 0 THEN "rename"
  ELSE IF k <= 3 /\ options.map.set /\ nf > 0 THEN "literal"
  ELSE IF k <= 4 /\ options.writer = "true" /\ nk > 0 THEN "writer"
  ELSE IF k <= 5 /\ options.writer = "function" THEN "callback"
  ELSE "done"

\* The host calls writeBundle({dir}, bundle) once its build phase is over;
\* it has consumed what transform returned by then.
Start ==
  /\ pc = "idle"
  /\ IF options.hook = "writeBundle"
     THEN /\ files' = Candidates(bundle, disk)
          /\ pc' = IF Len(files') > 0 THEN "first" ELSE PhaseFrom(2, 0, 0)
     ELSE /\ files' = files
          /\ pc' = "done"
  /\ idx' = 1
  /\ ret' = NoRet
  /\ UNCHANGED <<config, disk, records, recKeys, fsLog, writerCalls,
                 writerArg, ncalls>>

\* for (const filename of files) { update = await specifier.update(...) }
FirstPass ==
  /\ pc = "first"
  /\ LET f == files[idx]
         rec == IF UpdateFails(f)
                THEN [code |-> <<>>, error |-> TRUE]
                ELSE [code |-> Rewrite(disk[f], UpdaterCb(options)),
                      error |-> FALSE]
     IN IF UpdateFails(f) /\ failMode = "throw"
        THEN /\ pc' = "aborted"
             /\ UNCHANGED <<records, recKeys, idx>>
        ELSE /\ records' = (f :> rec) @@ records
             /\ recKeys' = IF f \in DOMAIN records THEN recKeys
                           ELSE Append(recKeys, f)
             /\ IF idx < Len(files)
                THEN /\ idx' = idx + 1
                     /\ pc' = "first"
                ELSE /\ idx' = 1
                     /\ pc' = PhaseFrom(2, Len(files), Len(recKeys'))
  /\ UNCHANGED <<config, disk, files, fsLog, writerCalls, writerArg, ret,
                 ncalls>>

\* const isCjs = extMap['.js'] === '.mjs'
isCjs(extMap) == Get(extMap, Js) = Mjs

\* targetExt that takes the ESM suffix whatever the script mapping is
targetExtEsm(extMap) == Mjs

\* const targetExt = isCjs ? '.cjs' : '.mjs'
targetExt(extMap) == IF isCjs(extMap) THEN Cjs ELSE Mjs

\* The filesystem operations the extension pass issues for one record.
RenameOps(f) ==
  LET code == records[f].code
      ext == newExt(f)
  IN IF records[f].error \/ ext = <<>> THEN <<>>
     ELSE IF ext = Dual
     THEN LET cjs == isCjs(options.extMap)
              dual == IF UpdateFails(f) THEN <<>>
                      ELSE Rewrite(disk[f],
                                   SwapCb(targetExt(options.extMap)))
          IN (IF dual # <<>>
              THEN <<WriteOp(ReplaceSuffix(f, DTs, IF cjs THEN DCts ELSE DMts),
                             dual)>>
              ELSE <<>>)
             \o <<WriteOp(ReplaceSuffix(f, DTs, IF cjs THEN DMts ELSE DCts),
                          code)>>
             \o <<RmOp(f)>>
     ELSE IF fileIsDec(f)
     THEN LET update == IF UpdateFails(f) THEN <<>>
                        ELSE Rewrite(disk[f], SwapCb(ext))
          IN (IF update # <<>>
              THEN <<WriteOp(ReplaceSuffix(f, DTs,
                                           IF ext = Mjs THEN DMts ELSE DCts),
                             update)>>
              ELSE <<>>)
             \o <<RmOp(f)>>
     ELSE <<WriteOp(ReplaceSuffix(f, fileExt(f), ext), code), RmOp(f)>>

\* the second specifier.update of a declaration record throws
RenameThrows(f) ==
  /\ ~records[f].error
  /\ newExt(f) # <<>>
  /\ newExt(f) = Dual \/ fileIsDec(f)
  /\ UpdateFails(f)
  /\ failMode = "throw"

\* the log keeps, for each operation, the pass that issued it
LogOf(ops, pass) ==
  [i \in 1..Len(ops) |-> [op |-> ops[i].op, path |-> ops[i].path, by |-> pass]]

\* if (extMap) { for (const filename of Object.keys(records)) { ... } }
Rename ==
  /\ pc = "rename"
  /\ LET f == recKeys[idx]
     IN IF RenameThrows(f)
        THEN /\ pc' = "aborted"
             /\ UNCHANGED <<disk, fsLog, idx>>
        ELSE /\ disk' = ApplyOps(disk, Completed(RenameOps(f)))
             /\ fsLog' = fsLog \o LogOf(Completed(RenameOps(f)), "rename")
             /\ IF Rejected(RenameOps(f)) # {}
                THEN /\ idx' = idx
                     /\ pc' = "aborted"
                ELSE IF idx < Len(recKeys)
                THEN /\ idx' = idx + 1
                     /\ pc' = "rename"
                ELSE /\ idx' = 1
                     /\ pc' = PhaseFrom(3, Len(files), Len(recKeys))
  /\ UNCHANGED <<config, files, records, recKeys, writerCalls, writerArg,
                 ret, ncalls>>

\* The path the literal pass writes a file's code to.
LiteralPath(f) ==
  LET ext == extname(f)
      to == IF options.extMap.set THEN Get(options.extMap, ext) ELSE <<>>
  IN IF to # <<>> THEN ReplaceSuffix(f, ext, to) ELSE f

\* The filesystem operations the literal pass issues for one file.
LiteralOps(f) ==
  LET code == IF f \in srcFail THEN <<>>
              ELSE Rewrite(records[f].code,
                           LookupCb(options.map))
  IN IF records[f].error \/ code = <<>> THEN <<>>
     ELSE <<WriteOp(LiteralPath(f), code)>>

\* if (specifierMap) { for (const filename of files) { ... } }
Literal ==
  /\ pc = "literal"
  /\ LET f == files[idx]
     IN IF ~records[f].error /\ f \in srcFail /\ failMode = "throw"
        THEN /\ pc' = "aborted"
             /\ UNCHANGED <<disk, fsLog, idx>>
        ELSE /\ disk' = ApplyOps(disk, Completed(LiteralOps(f)))
             /\ fsLog' = fsLog \o LogOf(Completed(LiteralOps(f)), "literal")
             /\ IF Rejected(LiteralOps(f)) # {}
                THEN /\ idx' = idx
                     /\ pc' = "aborted"
                ELSE IF idx < Len(files)
                THEN /\ idx' = idx + 1
                     /\ pc' = "literal"
                ELSE /\ idx' = 1
                     /\ pc' = PhaseFrom(4, Len(files), Len(recKeys))
  /\ UNCHANGED <<config, files, records, recKeys, writerCalls, writerArg,
                 ret, ncalls>>

\* The filesystem operations the default writer issues for one record.
WriterOps(f) ==
  IF records[f].error THEN <<>> ELSE <<WriteOp(f, records[f].code)>>

\* if (writer === true) { for (const filename of Object.keys(records)) ... }
DefaultWriter ==
  /\ pc = "writer"
  /\ LET f == recKeys[idx]
     IN /\ disk' = ApplyOps(disk, Completed(WriterOps(f)))
        /\ fsLog' = fsLog \o LogOf(Completed(WriterOps(f)), "writer")
        /\ IF Rejected(WriterOps(f)) # {}
           THEN /\ idx' = idx
                /\ pc' = "aborted"
           ELSE IF idx < Len(recKeys)
           THEN /\ idx' = idx + 1
                /\ pc' = "writer"
           ELSE /\ idx' = 1
                /\ pc' = PhaseFrom(5, Len(files), Len(recKeys))
  /\ UNCHANGED <<config, files, records, recKeys, writerCalls, writerArg,
                 ret, ncalls>>

\* if (typeof writer === 'function') { await writer(records) }
WriterCallback ==
  /\ pc = "callback"
  /\ writerCalls' = writerCalls + 1
  /\ writerArg' = DOMAIN records
  /\ pc' = "done"
  /\ UNCHANGED <<config, disk, files, idx, records, recKeys, fsLog, ret,
                 ncalls>>

\* ------------------------------------------------------------------ transform
\* What transform(src, id) hands back when specifier.updateSrc ends with
\* `outcome`: "ok", "report" (an error in the result) or "throw".
TransformResult(src, outcome) ==
  LET code == Rewrite(src, UpdaterCb(options))
      original == [kind |-> "value", svc |-> outcome, src |-> src,
                   code |-> src, map |-> FALSE]
  IN IF options.hook # "transform" THEN [original EXCEPT !.svc = "none"]
     ELSE IF outcome = "throw"
     THEN [kind |-> "throw", svc |-> outcome, src |-> src, code |-> <<>>,
           map |-> FALSE]
     ELSE IF outcome = "ok" /\ code # <<>>
     THEN [kind |-> "value", svc |-> outcome, src |-> src, code |-> code,
           map |-> TRUE]
     ELSE original

\* the host calls transform(src, id) while it builds, before it writes
Transform ==
  /\ pc = "idle"
  /\ ncalls < MaxTransforms
  /\ \E src \in ScriptCodes, outcome \in {"ok", "report", "throw"} :
       ret' = TransformResult(src, outcome)
  /\ ncalls' = ncalls + 1
  /\ UNCHANGED <<config, disk, loop, fsLog, writerCalls, writerArg>>

\* ------------------------------------------------------------ specification
Next ==
  \/ Start
  \/ FirstPass
  \/ Rename
  \/ Literal
  \/ DefaultWriter
  \/ WriterCallback
  \/ Transform

Spec == Init /\ [][Next]_vars

\* ------------------------------------------------------------- a second run
\* The file names a finished run can leave in outDir, in the order the host
\* reports them; declaration files (.d.ts) are found by the glob scan only.
OutputNames ==
  <<AJs, <<"a">> \o Mjs, ACjs, SCss, BCjs, <<"b">> \o Js, <<"a">> \o DMts,
    <<"a">> \o DCts>>

OutputSet(d) == SelectSeq(OutputNames, LAMBDA n : join(OutDir, n) \in DOMAIN d)

\* The host calls writeBundle again, with the same options, on the output the
\* previous call left: const files = Object.keys(bundle)... as in Start.
Rerun ==
  /\ pc = "done"
  /\ options.hook = "writeBundle"
  /\ run < MaxRuns
  /\ run' = run + 1
  /\ bundle' = OutputSet(disk)
  /\ disk0' = disk
  /\ files' = Candidates(bundle', disk)
  /\ pc' = IF Len(files') > 0 THEN "first" ELSE PhaseFrom(2, 0, 0)
  /\ idx' = 1
  /\ records' = EmptyFn
  /\ recKeys' = <<>>
  /\ fsLog' = <<>>
  /\ writerCalls' = 0
  /\ writerArg' = {}
  /\ UNCHANGED <<options, disk, updFail, srcFail, failMode, fsFail, ret,
                 ncalls>>

NextRerun ==
  \/ Next
  \/ Rerun

SpecRerun == Init /\ [][NextRerun]_vars

TypeOK ==
  /\ pc \in {"idle", "first", "rename", "literal", "writer", "callback",
             "done", "aborted"}
  /\ writerCalls \in 0..1
  /\ ncalls \in 0..MaxTransforms
  /\ Range(recKeys) = DOMAIN records

\* ==================================================================== claims
Relative(v) == StartsWith(v, DotSlash) \/ StartsWith(v, DotDotSlash)
ScriptKeys(extMap) == {k \in Keys(extMap) : ~EndsWith(k, DTs)}

\* the number of characters of v between its relative prefix and suffix k
Stem(v, k) ==
  Len(v) - Len(k) - (IF StartsWith(v, DotSlash) THEN 2 ELSE 3)

\* v with its suffix replaced as extMap says, when v is relative and ends in
\* a non-declaration key after at least minStem characters; v otherwise
SuffixMapped(v, extMap, minStem) ==
  LET K == {k \in ScriptKeys(extMap) : EndsWith(v, k) /\ Stem(v, k) >= minStem}
  IN IF Relative(v) /\ K # {}
     THEN LET k == CHOOSE x \in K : TRUE
          IN SubSeq(v, 1, Len(v) - Len(k)) \o Get(extMap, k)
     ELSE v

FirstPassMaps(minStem) ==
  \A f \in DOMAIN records :
    (options.extMap.set /\ ~records[f].error /\ f \in DOMAIN disk0) =>
      /\ Len(records[f].code) = Len(disk0[f])
      /\ \A i \in 1..Len(disk0[f]) :
           IF disk0[f][i].imp
           THEN records[f].code[i] =
                  Imp(SuffixMapped(disk0[f][i].val, options.extMap, minStem))
           ELSE records[f].code[i] = disk0[f][i]

\* C1 (as stated): with an extMap, the first pass changes a specifier exactly
\* when it is relative and ends in a non-declaration key of extMap, replacing
\* that suffix by the mapped one; every other specifier is returned unchanged.
C1_AsStated == FirstPassMaps(0)

\* C1 (amended): with an extMap, the first pass changes a specifier exactly
\* when it is relative and ends in a non-declaration key of extMap with at
\* least one character between the './' or '../' prefix and that suffix; the
\* suffix is replaced by the mapped one and every other specifier is unchanged.
C1_FirstPassMaps == FirstPassMaps(1)

C1_Witness ==
  \E f \in DOMAIN records :
    /\ options.extMap = Tbl(<< <<Js, Mjs>> >>)
    /\ ~records[f].error
    /\ disk0[f] = <<Imp(RelFooJs), Imp(BareJs), Imp(RelFooCjs)>>
    /\ records[f].code = <<Imp(RelFooMjs), Imp(BareJs), Imp(RelFooCjs)>>

\* -------------------------------------------------------------------- C2
WriteBundleDone == pc = "done" /\ options.hook = "writeBundle"

\* f with its extension replaced by the suffix extMap maps it to
RenamedPath(f) ==
  SubSeq(f, 1, Len(f) - Len(fileExt(f))) \o Get(options.extMap, fileExt(f))

LiteralMapped(code) == Rewrite(code, LookupCb(options.map))

\* C2: after writeBundle with an extMap, every candidate file whose rewrite
\* succeeded and whose extension is a key of extMap with a concrete target
\* is renamed: the path with the mapped suffix exists and holds the file's
\* rewritten code, and the original path no longer exists.
C2_Renamed ==
  (WriteBundleDone /\ options.extMap.set) =>
    \A f \in DOMAIN records :
      (/\ ~records[f].error
       /\ Has(options.extMap, fileExt(f))
       /\ Get(options.extMap, fileExt(f)) # Dual) =>
        /\ RenamedPath(f) \in DOMAIN disk
        /\ disk[RenamedPath(f)] \in
             {records[f].code, LiteralMapped(records[f].code)}
        /\ f \notin DOMAIN disk

\* -------------------------------------------------------------------- C3
Sibling(f, suffix) == SubSeq(f, 1, Len(f) - Len(DTs)) \o suffix

WrittenBy(pass) ==
  {fsLog[i].path : i \in {j \in 1..Len(fsLog) :
                            fsLog[j].op = "write" /\ fsLog[j].by = pass}}

\* C3: with '.d.ts': 'dual', for every declaration file x.d.ts whose first
\* pass succeeded, after writeBundle exactly the siblings x.d.mts and x.d.cts
\* have been written and x.d.ts no longer exists; x.d.ts is never removed
\* while fewer than two siblings were produced.
C3_DualSiblings ==
  \A f \in DOMAIN records :
    (/\ Get(options.extMap, DTs) = Dual
     /\ EndsWith(f, DTs)
     /\ ~records[f].error) =>
      LET both == {Sibling(f, DMts), Sibling(f, DCts)}
      IN /\ WriteBundleDone =>
              /\ both \subseteq DOMAIN disk
              /\ f \notin DOMAIN disk
              /\ both \subseteq WrittenBy("rename")
         /\ f \notin DOMAIN disk => both \subseteq DOMAIN disk

\* -------------------------------------------------------------------- C4
\* In the siblings emitted for a declaration file, every relative specifier
\* that ended in '.js' (after at least minStem characters) ends in the
\* sibling's own script suffix.
DualSpecifiers(needScriptEntry, minStem) ==
  \A f \in DOMAIN disk0 :
    (/\ EndsWith(f, DTs)
     /\ Get(options.extMap, DTs) = Dual
     /\ needScriptEntry => Get(options.extMap, Js) \in {Mjs, Cjs}) =>
      \A pair \in {<<DMts, Mjs>>, <<DCts, Cjs>>} :
        LET s == Sibling(f, pair[1])
        IN s \in DOMAIN disk =>
             /\ Len(disk[s]) = Len(disk0[f])
             /\ \A i \in 1..Len(disk0[f]) :
                  LET v == disk0[f][i].val
                  IN (/\ disk0[f][i].imp
                      /\ Relative(v)
                      /\ EndsWith(v, Js)
                      /\ Stem(v, Js) >= minStem) =>
                       disk[s][i] = Imp(SubSeq(v, 1, Len(v) - Len(Js)) \o pair[2])

\* C4 (as stated): in dual emission, for every extMap that contains
\* '.d.ts': 'dual', whatever it maps '.js' to and also without a '.js' entry,
\* every relative specifier that ended in '.js' in the source declaration
\* file ends in '.mjs' in x.d.mts and in '.cjs' in x.d.cts.
C4_AsStated == DualSpecifiers(FALSE, 0)

\* C4 (amended): in dual emission, for every extMap that contains
\* '.d.ts': 'dual' and maps '.js' to '.mjs' or '.cjs', every relative
\* specifier that ended in '.js' after at least one path character in the
\* source declaration file ends in '.mjs' in x.d.mts and in '.cjs' in x.d.cts.
C4_DualSpecifiers == DualSpecifiers(TRUE, 1)

C4_Witness ==
  /\ options.extMap = Tbl(<< <<Js, Mjs>>, <<DTs, Dual>> >>)
  /\ join(OutDir, ADTs) \in DOMAIN disk0
  /\ disk0[join(OutDir, ADTs)] = <<Imp(RelFooJs), Imp(BareJs), Imp(DotJs)>>
  /\ join(OutDir, <<"a">> \o DMts) \in DOMAIN disk
  /\ join(OutDir, <<"a">> \o DCts) \in DOMAIN disk
  /\ disk[join(OutDir, <<"a">> \o DMts)][1] = Imp(RelFooMjs)
  /\ disk[join(OutDir, <<"a">> \o DCts)][1] = Imp(RelFooCjs)

\* -------------------------------------------------------------------- C5
\* C5: with extMap {'.js': '.mjs', '.d.ts': '.d.mts'} (and '.cjs' / '.d.cts'),
\* every declaration file x.d.ts whose rewrite succeeded is emitted as
\* x.d.mts, its relative specifiers that ended in '.js' read '.mjs', and
\* x.d.ts is removed.
C5_DeclRenamed ==
  (/\ WriteBundleDone
   /\ options.extMap \in {Tbl(<< <<Js, Mjs>>, <<DTs, DMts>> >>),
                          Tbl(<< <<Js, Cjs>>, <<DTs, DCts>> >>)}) =>
    \A f \in DOMAIN records :
      (EndsWith(f, DTs) /\ ~records[f].error) =>
        LET s == Sibling(f, Get(options.extMap, DTs))
        IN /\ s \in DOMAIN disk
           /\ f \notin DOMAIN disk
           /\ Len(disk[s]) = Len(disk0[f])
           /\ \A i \in 1..Len(disk0[f]) :
                LET v == disk0[f][i].val
                IN (/\ disk0[f][i].imp
                    /\ Relative(v)
                    /\ EndsWith(v, Js)
                    /\ Stem(v, Js) >= 1) =>
                     disk[s][i] =
                       Imp(SubSeq(v, 1, Len(v) - Len(Js)) \o Get(options.extMap, Js))

\* -------------------------------------------------------------------- C6
\* the literal substitution stated on values: a key becomes its value, any
\* other specifier stays
Substituted(code) ==
  [i \in 1..Len(code) |->
     IF code[i].imp /\ \E j \in 1..Len(options.map.tbl) :
                         options.map.tbl[j][1] = code[i].val
     THEN Imp(options.map.tbl[CHOOSE j \in 1..Len(options.map.tbl) :
                                 options.map.tbl[j][1] = code[i].val][2])
     ELSE code[i]]

\* C6: with a literal map and no extMap, the literal pass replaces a
\* specifier by map[value] exactly when its value equals a key and leaves
\* every other specifier untouched, and writes the result to the file's own
\* path: after writeBundle every non-error candidate file on disk reads as
\* its content with the keys substituted.
C6_LiteralOnDisk ==
  (/\ WriteBundleDone
   /\ options.map.set
   /\ ~options.extMap.set
   /\ options.handler = "undefined") =>
    \A f \in DOMAIN records :
      (~records[f].error /\ f \notin srcFail) =>
        /\ f \in DOMAIN disk
        /\ disk[f] = Substituted(disk0[f])

\* -------------------------------------------------------------------- C7
Finished == pc \in {"done", "aborted"}

\* C7: when writer is a function, every writeBundle invocation calls it
\* exactly once, only after all passes have finished for every file, with a
\* records map that has one entry per candidate file; the default write-back
\* is not performed.
C7_WriterOnce ==
  (options.hook = "writeBundle" /\ options.writer = "function") =>
    /\ writerCalls <= 1
    /\ writerCalls = 1 => pc = "done" /\ writerArg = Range(files)
    /\ Finished => writerCalls = 1
    /\ WrittenBy("writer") = {}

\* -------------------------------------------------------------------- C8
\* C8: if the rewrite service throws for one candidate file, in the first
\* pass or in the literal pass, writeBundle does not abort: the failing file
\* gets a record with error set and empty code (first pass) or is skipped
\* (literal pass), every other candidate file is still processed and the
\* writer still runs.
C8_FailureIsolated ==
  failMode = "throw" =>
    /\ pc # "aborted"
    /\ \A f \in DOMAIN records :
         f \in updFail => records[f].error /\ records[f].code = <<>>
    /\ WriteBundleDone =>
         /\ DOMAIN records = Range(files)
         /\ options.writer = "function" => writerCalls = 1

\* -------------------------------------------------------------------- C9
\* C9: with hook 'transform', transform returns the rewritten code when the
\* rewrite service succeeds, and the original source with a null map when
\* the service reports an error or throws; a failure never reaches the host.
C9_TransformRecovers ==
  (options.hook = "transform" /\ ret.kind # "none") =>
    /\ ret.kind = "value"
    /\ ret.svc = "ok" =>
         ret.code = Rewrite(ret.src, UpdaterCb(options))
    /\ ret.svc \in {"report", "throw"} => ret.code = ret.src /\ ~ret.map

\* ------------------------------------------------------------------- C10
RemovedBefore(j, pass) ==
  {fsLog[i].path : i \in {k \in 1..(j - 1) :
                            fsLog[k].op = "rm" /\ fsLog[k].by = pass}}

\* C10: with writer === true, writeBundle writes each non-error record's
\* code to that file's current path and nothing for error records; the
\* default writer never re-creates an original path that the rename pass
\* deleted.
C10_DefaultWriterPath ==
  options.writer = "true" =>
    /\ \A j \in 1..Len(fsLog) :
         fsLog[j].by = "writer" =>
           /\ fsLog[j].path \notin RemovedBefore(j, "rename")
           /\ fsLog[j].path \in DOMAIN records =>
                ~records[fsLog[j].path].error
    /\ WriteBundleDone =>
         \A f \in DOMAIN records :
           (~records[f].error /\ f \notin RemovedBefore(Len(fsLog) + 1, "rename"))
             => f \in WrittenBy("writer")

\* ------------------------------------------------------------------- C11
NoMatcher ==
  /\ ~options.extMap.set
  /\ ~options.map.set
  /\ options.handler \in {"undefined", "empty"}

\* C11: with no extMap, no map and a handler that is absent or an empty
\* table, the rewrite passes change nothing: what transform returns as code
\* equals its input, and every candidate file of writeBundle keeps the
\* content it had before, whether writer is false, true or a callback.
C11_NoMatcherNoOp ==
  NoMatcher =>
    /\ ret.kind = "value" => ret.code = ret.src
    /\ \A f \in Range(files) : f \in DOMAIN disk /\ disk[f] = disk0[f]

C11_Witness ==
  /\ NoMatcher
  /\ WriteBundleDone
  /\ options.writer = "true"
  /\ \E f \in WrittenBy("writer") :
       /\ disk0[f] = <<Imp(RelFooJs), Imp(BareJs), Imp(RelFooCjs)>>
       /\ disk[f] = disk0[f]

\* ------------------------------------------------------------------- C12
\* no suffix that extMap maps to is itself a key of extMap
NoChain(extMap) ==
  \A k \in Keys(extMap) : Get(extMap, k) \notin Keys(extMap)

C13_ExtMapSupersedes ==
  options.extMap.set =>
    /\ \A f \in DOMAIN records :
         ~records[f].error =>
           records[f].code =
             Rewrite(disk0[f], UpdaterCb([options EXCEPT !.handler = "undefined"]))
    /\ writerCalls = 0
    /\ WrittenBy("writer") = {}

\* ------------------------------------------------------------------- C14
\* extMap gives the target 'dual' to a suffix other than '.d.ts'
DualOnScript(extMap) ==
  \E k \in Keys(extMap) : ~EndsWith(k, DTs) /\ Get(extMap, k) = Dual

\* C14: a configuration error, such as the target 'dual' on a suffix that
\* is not a declaration suffix, is detected before any file is processed
\* and is fatal: no file has been rewritten, written or deleted, and
\* writeBundle never runs to its end.
C14_ConfigErrorEager ==
  (options.hook = "writeBundle" /\ DualOnScript(options.extMap)) =>
    /\ pc \in {"idle", "aborted"}
    /\ records = EmptyFn
    /\ fsLog = <<>>

\* ------------------------------------------------------------------- C15
\* C15: the rename pass deletes an original file only after a replacement
\* for it has been written at another path; a declaration file whose second
\* rewrite yields no code is not deleted without a replacement.
C15_DeleteAfterReplacement ==
  \A j \in 1..Len(fsLog) :
    (fsLog[j].op = "rm" /\ fsLog[j].by = "rename") =>
      /\ j > 1
      /\ fsLog[j - 1].op = "write"
      /\ fsLog[j - 1].by = "rename"
      /\ fsLog[j - 1].path # fsLog[j].path

\* ------------------------------------------------------------------- C16
\* C16: with both extMap and map, the literal pass works on the code the
\* extension rewrite produced and writes it to the path the rename pass
\* produced, declaration files included: it never writes to a path the
\* rename pass has removed.
C16_LiteralAtRenamedPath ==
  (options.extMap.set /\ options.map.set) =>
    \A j \in 1..Len(fsLog) :
      (fsLog[j].op = "write" /\ fsLog[j].by = "literal") =>
        fsLog[j].path \notin RemovedBefore(j, "rename")

\* ------------------------------------------------------------------- C17
\* C17: a filesystem write that fails for one file in the rename pass does
\* not abort writeBundle: the remaining records are still processed and
\* writeBundle runs to its end.
C17_WriteFailureIsolated ==
  (fsFail # {} /\ options.extMap.set /\ ~options.map.set
     /\ options.writer = "false") =>
    /\ pc # "aborted"
    /\ WriteBundleDone =>
         \A f \in DOMAIN records :
           (/\ ~records[f].error
            /\ Has(options.extMap, fileExt(f))
            /\ Get(options.extMap, fileExt(f)) # Dual
            /\ RenamedPath(f) \notin fsFail) =>
             RenamedPath(f) \in DOMAIN disk

\* ------------------------------------------------------------------- C18
\* the paths some filesystem operation of this run has touched
Touched == {fsLog[i].path : i \in 1..Len(fsLog)}

\* C18: a candidate file whose first-pass record carries an error is never
\* written, renamed or deleted by a later step of writeBundle: it stays on
\* disk with the content it had before.
C18_ErrorFileUntouched ==
  \A f \in DOMAIN records :
    records[f].error =>
      /\ f \notin Touched
      /\ f \in DOMAIN disk
      /\ disk[f] = disk0[f]

\* ------------------------------------------------------------------- C19
\* the path a file's code is at once the rename pass is over
CurrentPath(f) ==
  IF options.extMap.set /\ ~fileIsDec(f) /\ Has(options.extMap, fileExt(f))
  THEN RenamedPath(f) ELSE f

\* C19: after the literal pass a file's record holds the code that pass
\* produced, so the writers work on literal-mapped code: with map and
\* writer === true the final content of every non-error file has the
\* literal substitutions applied.
C19_RecordsHoldLiteral ==
  (/\ options.map.set
   /\ options.hook = "writeBundle"
   /\ pc \in {"writer", "callback", "done"}) =>
    \A f \in DOMAIN records :
      (~records[f].error /\ f \notin srcFail) =>
        /\ records[f].code =
             LiteralMapped(Rewrite(disk0[f], UpdaterCb(options)))
        /\ (pc = "done" /\ options.writer = "true"
              /\ CurrentPath(f) \in DOMAIN disk) =>
             disk[CurrentPath(f)] = records[f].code

\* ------------------------------------------------------------------- C20
\* C20: the candidate list holds each path at most once, also when the
\* manifest itself names a '.d.ts' file that the scan finds too, so every
\* pass handles each file at most once.
C20_CandidatesDistinct ==
  \A i, j \in 1..Len(files) : files[i] = files[j] => i = j

\* ------------------------------------------------------------------- C21
\* the file the rename pass was handling when it issued operation j: the
\* path of the next removal in the log
OwnerOf(j) ==
  LET later == {k \in j..Len(fsLog) :
                  fsLog[k].op = "rm" /\ fsLog[k].by = "rename"}
  IN IF later = {} THEN <<>>
     ELSE fsLog[CHOOSE k \in later : \A m \in later : k <= m].path

\* C21: for any extMap and any candidate set, the rename pass never writes
\* over a path that is another candidate's original file, and after the
\* pass every non-error script candidate with a concrete target has its
\* own output file holding its own rewritten code.
C21_RenameNoClobber ==
  /\ \A j \in 1..Len(fsLog) :
       (/\ fsLog[j].op = "write"
        /\ fsLog[j].by = "rename"
        /\ fsLog[j].path \in DOMAIN records) =>
         fsLog[j].path = OwnerOf(j)
  /\ (/\ WriteBundleDone
      /\ options.extMap.set
      /\ ~options.map.set
      /\ options.writer = "false") =>
       \A f \in DOMAIN records :
         (/\ ~records[f].error
          /\ ~fileIsDec(f)
          /\ Has(options.extMap, fileExt(f))
          /\ Get(options.extMap, fileExt(f)) # Dual) =>
           /\ RenamedPath(f) \in DOMAIN disk
           /\ disk[RenamedPath(f)] = records[f].code

====
